---- MODULE Spec2Model ----
(***************************************************************************)
(* The three programs of the repository as one state machine:               *)
(*   x_counts.py               threshold counter over a paginated search    *)
(*   x_counts_recent.py        bucketed count collector / id extraction     *)
(*   x_download_tweets_grok.py reply collector over a list of conversations *)
(* A run is one execution of one program's main(); `prog` says which.       *)
(* The remote API, the CSV file and the environment are the inputs.         *)
(***************************************************************************)
EXTENDS Integers, Sequences, FiniteSets, TLC

(* ------------------------------ bounds --------------------------------- *)
\* pages the remote holds for one pagination loop
MaxPages == 3
\* items (tweets) over all the pages of one pagination loop
MaxItems == 2
\* ticks of wall-clock time that may pass during one run
MaxElapsed == 1
\* requests the tweepy client may repeat by itself in one loop
MaxWaits == 1
\* rows of the input CSV
MaxRows == 3
\* buckets (days) in one response of the counts endpoint
MaxBuckets == 2
\* largest tweet_count in a bucket
MaxCount == 1
\* resolution of the clock, in ticks per second: datetime carries
\* sub-second time, which iso_time drops (replace(microsecond=0))
TicksPerSecond == 2

(* ------------------------- program constants --------------------------- *)
MIN_LIKES == 50
\* timedelta(seconds=20)
GraceSeconds == 20

\* `None` as a cursor: no next_token
NoToken == 0

NoCsv == [exists |-> FALSE, hasColumn |-> FALSE, cells |-> <<>>]

Programs == {"x_counts", "x_counts_recent", "x_download_tweets_grok"}

VARIABLES
  prog,         \* which program's main() runs
  token,        \* BEARER_TOKEN is set (truthy)
  csvArg,       \* x_counts_recent: --conversation-csv was given
  csv,          \* the input CSV file: whether it exists, has the column, and the column's cells
  pc,           \* position of main()
  clock,        \* wall-clock time, in ticks
  networkUsed,  \* a network request has been issued in this run
  idx,          \* position of main's loop over queries / candidates / conversation ids
  script,       \* the pages the remote holds for the current pagination loop
  next_token,   \* the loop's cursor (x_counts: next_token; grok: the Paginator's next_token)
  total_count,  \* x_counts: total_count
  replies,      \* grok: replies
  end_time,     \* x_counts: params["end_time"]
  lastReq,      \* the last request of the current loop (<<>>: none yet): its end_time, cursor and issue time
  lastResp,     \* the remote's answer to the last request of the current loop: none, page or the failure
  served,       \* the page numbers the remote has served successfully in the current loop, in order
  fetches,      \* requests issued in the current loop
  faults,       \* failures the remote answered with in the current loop, in order
  sleeps,       \* rate-limit cool-downs slept in the current loop
  status,       \* how the current loop stands: RUNNING, DONE, ABORTED, RAISED
  results,      \* x_counts: n_jeannette, n_evelyn as far as assigned
  conversation_ids, \* the Deduplicator's output
  index_dates,  \* x_counts_recent: index_dates (<<>>: None, else <<the list>>)
  out_dict,     \* x_counts_recent: out_dict, as a sequence of <<short_name, counts>>
  all_replies,  \* grok: all_replies, as a sequence of <<conv_id, replies>>
  output,       \* the artifacts written or printed (<<>>: nothing)
  raised,       \* the exception that ended main(), "" while none did
  responses,    \* x_counts_recent: the data the counts endpoint returned, per candidate fetched
  loopLog       \* how the finished pagination loops of this run ended, in order

vars == <<prog, token, csvArg, csv, pc, clock, networkUsed, idx, script, next_token,
          total_count, replies, end_time, lastReq, lastResp, served, fetches, faults,
          sleeps, status, results, conversation_ids, index_dates, out_dict, all_replies, output,
          responses, loopLog, raised>>

loopVars == <<script, next_token, total_count, replies, end_time, lastReq, lastResp,
              served, fetches, faults, sleeps, status>>

(* --------------------------- the remote API ---------------------------- *)
\* like_count values tried: one below the threshold, and the threshold
Likes == {MIN_LIKES - 1, MIN_LIKES}

RECURSIVE SeqsUpTo(_, _)
SeqsUpTo(S, n) ==
  IF n = 0 THEN {<<>>}
  ELSE LET shorter == SeqsUpTo(S, n - 1)
       IN shorter \cup {Append(s, x) : s \in {t \in shorter : Len(t) = n - 1}, x \in S}

RECURSIVE Flatten(_)
Flatten(pages) ==
  IF pages = <<>> THEN <<>> ELSE Head(pages) \o Flatten(Tail(pages))

\* one page's data: a sequence of tweets, a tweet given by its like_count
PageData(n) == SeqsUpTo(Likes, n)

\* the scripts of exactly p pages holding at most n tweets
RECURSIVE ScriptsOf(_, _)
ScriptsOf(p, n) ==
  IF p = 0 THEN {<<>>}
  ELSE UNION {{<<d>> \o s : s \in ScriptsOf(p - 1, n - Len(d))} : d \in PageData(n)}

\* what the remote holds for one query: at least one page, the last one
\* without next_token
Scripts == UNION {ScriptsOf(p, MaxItems) : p \in 1..MaxPages}

\* the response to a request carrying `cursor` (None: first page). The
\* next_token of page i is i + 1; the last page has none.
RemotePage(s, cursor) ==
  LET i == IF cursor = NoToken THEN 1 ELSE cursor
  IN [page |-> i,
      data |-> s[i],
      next_token |-> IF i < Len(s) THEN i + 1 ELSE NoToken]

(* ------------------------------ x_counts ------------------------------- *)
Queries == <<"q_jeannette", "q_evelyn">>

\* mutant: rounds up to the next whole second
iso_time_ceil(dt) ==
  IF dt % TicksPerSecond = 0 THEN dt ELSE dt + TicksPerSecond - (dt % TicksPerSecond)

\* iso_time: dt.replace(microsecond=0)
iso_time(dt) == dt - (dt % TicksPerSecond)

\* mutant: strict comparison
QualifiesStrict(likes, min_likes) == likes > min_likes

\* likes >= min_likes
Qualifies(likes, min_likes) == likes >= min_likes

\* the for loop over data["data"]: the number added to total_count
RECURSIVE CountPage(_, _)
CountPage(data, min_likes) ==
  IF data = <<>> THEN 0
  ELSE (IF Qualifies(Head(data), min_likes) THEN 1 ELSE 0) + CountPage(Tail(data), min_likes)

\* mutant: the credential check is missing
NoTokenCheck == FALSE

\* `if not BEARER_TOKEN`
TokenMissing == ~token

\* mutant: the loop is left after the first page
LoopEndsAlways(tok) == TRUE

\* `if not next_token: break`
LoopEnds(tok) == tok = NoToken

\* the remote answers the request with a failure
Fault(kind) ==
  /\ faults' = Append(faults, kind)
  /\ lastResp' = kind

ResetLoop ==
  /\ script' = <<>>
  /\ UNCHANGED <<next_token, total_count, replies>>
  /\ end_time' = 0
  /\ lastReq' = <<>>
  /\ lastResp' = "none"
  /\ served' = <<>>
  /\ fetches' = 0
  /\ faults' = <<>>
  /\ sleeps' = 0
  /\ status' = "IDLE"

Elapsed == clock - GraceSeconds * TicksPerSecond

\* wall-clock time passes while x_counts runs
Tick ==
  /\ prog = "x_counts"
  /\ pc \in {"call", "loop"}
  /\ Elapsed < TicksPerSecond - 1 + MaxElapsed
  /\ clock' = clock + 1
  /\ UNCHANGED <<prog, token, csvArg, csv, pc, networkUsed, idx, results,
                 conversation_ids, index_dates, out_dict, all_replies, output,
                 responses, loopLog>>
  /\ UNCHANGED loopVars
  /\ UNCHANGED raised

\* count_popular_tweets, lines 34-35: the credential is missing
CountNoToken ==
  /\ prog = "x_counts"
  /\ pc = "call"
  /\ TokenMissing
  /\ pc' = "raised"
  /\ UNCHANGED <<prog, token, csvArg, csv, clock, networkUsed, idx, results,
                 conversation_ids, index_dates, out_dict, all_replies, output,
                 responses, loopLog>>
  /\ UNCHANGED loopVars
  /\ raised' = "RuntimeError"

\* mutant: the name keeps the value the call before left in it
StaleLocal(stale, initial) == stale

\* lines 48-49: a local of the call is bound to its initial value, whatever
\* a call before left under that name
NewLocal(stale, initial) == initial

\* count_popular_tweets, lines 34-49: up to the loop
CountBegin ==
  /\ prog = "x_counts"
  /\ pc = "call"
  /\ ~TokenMissing
  /\ \E s \in Scripts : script' = s
  /\ end_time' = iso_time(clock - GraceSeconds * TicksPerSecond)
  /\ total_count' = NewLocal(total_count, 0)
  /\ next_token' = NewLocal(next_token, NoToken)
  /\ lastReq' = <<>>
  /\ lastResp' = "none"
  /\ served' = <<>>
  /\ fetches' = 0
  /\ faults' = <<>>
  /\ sleeps' = 0
  /\ status' = "RUNNING"
  /\ pc' = "loop"
  /\ UNCHANGED <<prog, token, csvArg, csv, clock, networkUsed, idx, replies, results,
                 conversation_ids, index_dates, out_dict, all_replies, output,
                 responses, loopLog>>
  /\ UNCHANGED raised

\* mutant: the cursor is never put into the request
ParamsTokenDropped(tok) == NoToken

\* lines 52-55: params["next_token"] is the cursor, or is absent
ParamsToken(tok) == IF tok # NoToken THEN tok ELSE NoToken

\* the request of one iteration, lines 52-57
CountRequest ==
  /\ networkUsed' = TRUE
  /\ fetches' = fetches + 1
  /\ lastReq' = <<[end_time |-> end_time, next_token |-> ParamsToken(next_token),
                  at |-> clock]>>

\* one iteration answered with status 200, lines 51-73
CountFetchOk ==
  /\ prog = "x_counts"
  /\ pc = "loop"
  /\ CountRequest
  /\ LET resp == RemotePage(script, ParamsToken(next_token))
     IN /\ total_count' = total_count + CountPage(resp.data, MIN_LIKES)
        /\ next_token' = resp.next_token
        /\ served' = Append(served, resp.page)
        /\ lastResp' = "page"
        /\ IF LoopEnds(resp.next_token)
             THEN pc' = "ret" /\ status' = "DONE"
             ELSE pc' = "loop" /\ status' = "RUNNING"
  /\ UNCHANGED <<prog, token, csvArg, csv, clock, idx, script, replies, end_time,
                 faults, sleeps, results, conversation_ids, index_dates, out_dict,
                 all_replies, output, responses, loopLog>>
  /\ UNCHANGED raised

\* one iteration answered with a status other than 200 (429: rate limit;
\* anything else: remote error), lines 51-60: print and break
CountFetchStatus ==
  /\ prog = "x_counts"
  /\ pc = "loop"
  /\ CountRequest
  /\ \E kind \in {"RateLimited", "RemoteError"} : Fault(kind)
  /\ pc' = "ret"
  /\ status' = "ABORTED"
  /\ UNCHANGED <<prog, token, csvArg, csv, clock, idx, script, next_token,
                 total_count, replies, end_time, served, sleeps, results,
                 conversation_ids, index_dates, out_dict, all_replies, output,
                 responses, loopLog>>
  /\ UNCHANGED raised

\* requests.get raises (connection error, timeout): nothing catches it
CountFetchTransport ==
  /\ prog = "x_counts"
  /\ pc = "loop"
  /\ CountRequest
  /\ Fault("TransportError")
  /\ pc' = "raised"
  /\ status' = "RAISED"
  /\ loopLog' = Append(loopLog, "RAISED")
  /\ UNCHANGED <<prog, token, csvArg, csv, clock, idx, script, next_token,
                 total_count, replies, end_time, served, sleeps, results,
                 conversation_ids, index_dates, out_dict, all_replies, output,
                 responses>>
  /\ raised' = "RequestException"

\* line 75 and main, lines 85-90: the count is assigned; after the second
\* query the results are printed
CountReturn ==
  /\ prog = "x_counts"
  /\ pc = "ret"
  /\ results' = Append(results, total_count)
  /\ IF idx < Len(Queries)
       THEN /\ idx' = idx + 1
            /\ pc' = "call"
            /\ output' = output
       ELSE /\ idx' = idx
            /\ pc' = "done"
            /\ output' = <<results'>>
  /\ ResetLoop
  /\ loopLog' = Append(loopLog, status)
  /\ UNCHANGED <<prog, token, csvArg, csv, clock, networkUsed, conversation_ids,
                 index_dates, out_dict, all_replies, responses>>
  /\ UNCHANGED raised

(* ------------------------- the input CSV file -------------------------- *)
\* A cell of the conversation_id column is its text, a sequence of
\* characters; the empty cell is a missing value. The rows carry other
\* columns too, so a row with an empty conversation_id is still a row.
Blank == <<>>

Digits == <<"0", "1", "2", "3", "4", "5", "6", "7", "8", "9">>

\* the cells tried: blank, numeric ids (one written with a leading zero)
\* and a non-numeric id
Cells == {Blank, <<"7">>, <<"0", "7">>, <<"8">>, <<"a">>}

CsvOf(cells) == [exists |-> TRUE, hasColumn |-> TRUE, cells |-> cells]

NoColumnCsv == [exists |-> TRUE, hasColumn |-> FALSE, cells |-> <<>>]

CsvFiles == {NoCsv, NoColumnCsv} \cup {CsvOf(c) : c \in SeqsUpTo(Cells, MaxRows)}

\* the files tried with the reply collector: one of each kind
GrokCsvFiles ==
  {NoCsv, NoColumnCsv, CsvOf(<<>>), CsvOf(<<Blank>>), CsvOf(<<<<"a">>>>),
   CsvOf(<<<<"7">>, <<"8">>>>), CsvOf(<<<<"a">>, Blank, <<"a">>>>),
   CsvOf(<<<<"7">>, Blank>>)}

IsDigit(c) == \E i \in 1..Len(Digits) : Digits[i] = c

DigitVal(c) == (CHOOSE i \in 1..Len(Digits) : Digits[i] = c) - 1

\* read_csv's test of a cell for the integer dtype
IsInt(cell) == cell # Blank /\ \A i \in 1..Len(cell) : IsDigit(cell[i])

\* the integer read_csv parses from a cell of digits
RECURSIVE IntVal(_)
IntVal(cell) ==
  IF cell = <<>> THEN 0
  ELSE 10 * IntVal(SubSeq(cell, 1, Len(cell) - 1)) + DigitVal(cell[Len(cell)])

\* str() of an integer
RECURSIVE IntStr(_)
IntStr(n) ==
  IF n < 10 THEN <<Digits[n + 1]>> ELSE IntStr(n \div 10) \o <<Digits[(n % 10) + 1]>>

\* str() of a float64 holding a whole number
FloatStr(n) == IntStr(n) \o <<".", "0">>

RECURSIVE DropBlank(_)
DropBlank(cells) ==
  IF cells = <<>> THEN <<>>
  ELSE IF Head(cells) = Blank THEN DropBlank(Tail(cells))
       ELSE <<Head(cells)>> \o DropBlank(Tail(cells))

\* the dtype pd.read_csv gives the column: int64 when every cell is an
\* integer, float64 when the cells are integers and missing values (NaN
\* is a float), object (str) otherwise
ColumnDtype(cells) ==
  IF \A i \in 1..Len(cells) : cells[i] = Blank \/ IsInt(cells[i])
    THEN IF \E i \in 1..Len(cells) : cells[i] = Blank THEN "float64" ELSE "int64"
    ELSE "object"

\* df["conversation_id"].dropna().astype(str)
DropNaAsStr(cells) ==
  LET dtype == ColumnDtype(cells)
      kept == DropBlank(cells)
  IN [i \in 1..Len(kept) |->
        CASE dtype = "int64" -> IntStr(IntVal(kept[i]))
          [] dtype = "float64" -> FloatStr(IntVal(kept[i]))
          [] OTHER -> kept[i]]

\* the loop over the values with `seen` and `unique_ids`
RECURSIVE Unique(_, _, _)
Unique(values, seen, unique_ids) ==
  IF values = <<>> THEN unique_ids
  ELSE IF Head(values) \notin seen
         THEN Unique(Tail(values), seen \cup {Head(values)}, Append(unique_ids, Head(values)))
         ELSE Unique(Tail(values), seen, unique_ids)

\* x_counts_recent.extract_conversation_ids: the error raised, or the ids
extract_conversation_ids(file) ==
  IF ~file.exists THEN [error |-> "FileNotFoundError", ids |-> <<>>]
  ELSE IF ~file.hasColumn THEN [error |-> "KeyError", ids |-> <<>>]
  ELSE [error |-> "", ids |-> Unique(DropNaAsStr(file.cells), {}, <<>>)]

\* mutant: the column is not looked for
load_conversation_ids_unchecked(file) ==
  IF ~file.exists THEN [error |-> "FileNotFoundError", ids |-> <<>>]
  ELSE [error |-> "", ids |-> Unique(DropNaAsStr(file.cells), {}, <<>>)]

\* x_download_tweets_grok.load_conversation_ids: the error raised, or the ids
load_conversation_ids(file) ==
  IF ~file.exists THEN [error |-> "FileNotFoundError", ids |-> <<>>]
  ELSE IF ~file.hasColumn THEN [error |-> "KeyError", ids |-> <<>>]
  ELSE [error |-> "", ids |-> Unique(DropNaAsStr(file.cells), {}, <<>>)]

(* --------------------------- x_counts_recent --------------------------- *)
CANDIDATES == <<"Jara", "Matthei">>

\* bucket starts: the day, and the time of day
Dates == {"2025-01-01", "2025-01-02", "2025-01-03"}
Midnight == "T00:00:00.000Z"
Times == {Midnight, "T14:23:05.000Z"}

\* the responses of the counts endpoint (granularity day): one row per
\* day, days distinct; only the first bucket may start within a day
CountsResponses ==
  {d \in SeqsUpTo([start : Dates \X Times, tweet_count : 0..MaxCount], MaxBuckets) :
     /\ \A i, j \in 1..Len(d) : i # j => d[i].start[1] # d[j].start[1]
     /\ \A i \in 2..Len(d) : d[i].start[2] = Midnight}

\* row["start"][:10]
Slice10(start) == start[1]

\* [row["start"][:10] for row in data]
IndexDates(data) == [i \in 1..Len(data) |-> Slice10(data[i].start)]

\* mutant: the rows are taken newest first
TweetCountsReversed(data) == [i \in 1..Len(data) |-> data[Len(data) + 1 - i].tweet_count]

\* [row["tweet_count"] for row in data]
TweetCounts(data) == [i \in 1..Len(data) |-> data[i].tweet_count]

\* mutant: an empty value gets no entry
DictSetNonEmpty(d, key, value) ==
  IF value = <<>> THEN d ELSE Append(d, <<key, value>>)

\* d[key] = value on a dict kept in insertion order
DictSet(d, key, value) ==
  IF \E i \in 1..Len(d) : d[i][1] = key
    THEN [i \in 1..Len(d) |-> IF d[i][1] = key THEN <<key, value>> ELSE d[i]]
    ELSE Append(d, <<key, value>>)

\* pd.DataFrame(out_dict, index=index_dates): the lists must be as long
\* as the index
FrameError(od, index) == \E i \in 1..Len(od) : Len(od[i][2]) # Len(index)

DataFrame(od, index) == [index |-> index, columns |-> od]

progVars == <<prog, token, csvArg, csv, clock>>

\* main, lines 83-88: --conversation-csv was given
RecentExtract ==
  /\ prog = "x_counts_recent"
  /\ pc = "start"
  /\ csvArg
  /\ LET r == extract_conversation_ids(csv)
     IN IF r.error # ""
          THEN /\ pc' = "raised"
               /\ UNCHANGED <<conversation_ids, output>>
          ELSE /\ pc' = "done"
               /\ conversation_ids' = r.ids
               /\ output' = <<r.ids>>
  /\ UNCHANGED progVars
  /\ UNCHANGED loopVars
  /\ UNCHANGED <<networkUsed, idx, results, index_dates, out_dict, all_replies,
                 responses, loopLog>>
  /\ raised' = extract_conversation_ids(csv).error

\* main, lines 90-91: the credential is missing
RecentNoToken ==
  /\ prog = "x_counts_recent"
  /\ pc = "start"
  /\ ~csvArg
  /\ TokenMissing
  /\ pc' = "raised"
  /\ UNCHANGED progVars
  /\ UNCHANGED loopVars
  /\ UNCHANGED <<networkUsed, idx, results, conversation_ids, index_dates, out_dict,
                 all_replies, output, responses, loopLog>>
  /\ raised' = "RuntimeError"

\* main, lines 90-94
RecentBegin ==
  /\ prog = "x_counts_recent"
  /\ pc = "start"
  /\ ~csvArg
  /\ ~TokenMissing
  /\ pc' = "candidates"
  /\ out_dict' = <<>>
  /\ index_dates' = <<>>
  /\ idx' = 1
  /\ UNCHANGED progVars
  /\ UNCHANGED loopVars
  /\ UNCHANGED <<networkUsed, results, conversation_ids, all_replies, output,
                 responses, loopLog>>
  /\ UNCHANGED raised

\* one turn of the loop over CANDIDATES, lines 96-109, fetch_counts
\* answered with status 200
RecentFetchOk ==
  /\ prog = "x_counts_recent"
  /\ pc = "candidates"
  /\ idx <= Len(CANDIDATES)
  /\ networkUsed' = TRUE
  /\ \E data \in CountsResponses :
       /\ responses' = Append(responses, data)
       /\ index_dates' = IF index_dates = <<>> THEN <<IndexDates(data)>> ELSE index_dates
       /\ out_dict' = DictSet(out_dict, CANDIDATES[idx], TweetCounts(data))
  /\ idx' = idx + 1
  /\ loopLog' = Append(loopLog, "DONE")
  /\ UNCHANGED progVars
  /\ UNCHANGED loopVars
  /\ UNCHANGED <<pc, results, conversation_ids, all_replies, output>>
  /\ UNCHANGED raised

\* fetch_counts raises: RuntimeError on a status other than 200 (line
\* 41), or the exception of requests.get; main does not catch it
RecentFetchFail ==
  /\ prog = "x_counts_recent"
  /\ pc = "candidates"
  /\ idx <= Len(CANDIDATES)
  /\ networkUsed' = TRUE
  /\ \E kind \in {"RateLimited", "RemoteError", "TransportError"} :
       /\ Fault(kind)
       /\ raised' = IF kind = "TransportError" THEN "RequestException" ELSE "RuntimeError"
  /\ pc' = "raised"
  /\ loopLog' = Append(loopLog, "RAISED")
  /\ UNCHANGED progVars
  /\ UNCHANGED <<script, next_token, total_count, replies, end_time, lastReq,
                 served, fetches, sleeps, status>>
  /\ UNCHANGED <<idx, results, conversation_ids, index_dates, out_dict, all_replies,
                 output, responses>>

\* mutant: the statements after the for loop run once one turn is over
ForExhaustedEarly(i, n) == i > 1

\* the for loop over n elements is over when turn i would pass the last
\* one; the statements after the loop run only then
ForExhausted(i, n) == i > n

\* main, lines 112-122: the table is built and written
RecentBuild ==
  /\ prog = "x_counts_recent"
  /\ pc = "candidates"
  /\ ForExhausted(idx, Len(CANDIDATES))
  /\ IF FrameError(out_dict, index_dates[1])
       THEN pc' = "raised" /\ output' = output
       ELSE pc' = "done" /\ output' = <<DataFrame(out_dict, index_dates[1])>>
  /\ UNCHANGED progVars
  /\ UNCHANGED loopVars
  /\ UNCHANGED <<networkUsed, idx, results, conversation_ids, index_dates, out_dict,
                 all_replies, responses, loopLog>>
  /\ raised' = IF FrameError(out_dict, index_dates[1]) THEN "ValueError" ELSE raised

(* ----------------------- x_download_tweets_grok ------------------------ *)
\* main, lines 114-115: the credential is missing
GrokNoToken ==
  /\ prog = "x_download_tweets_grok"
  /\ pc = "start"
  /\ TokenMissing
  /\ pc' = "raised"
  /\ UNCHANGED progVars
  /\ UNCHANGED loopVars
  /\ UNCHANGED <<networkUsed, idx, results, conversation_ids, index_dates, out_dict,
                 all_replies, output, responses, loopLog>>
  /\ raised' = "RuntimeError"

\* mutant: an empty list is not looked for
NoIdsIgnored(ids) == FALSE

\* main, lines 118-120: if not conversation_ids: print and return
NoIds(ids) == ids = <<>>

\* main, lines 114-125: the ids are loaded; without ids main returns,
\* else the client is built and the loop over the ids starts
GrokLoad ==
  /\ prog = "x_download_tweets_grok"
  /\ pc = "start"
  /\ ~TokenMissing
  /\ LET r == load_conversation_ids(csv)
     IN IF r.error # ""
          THEN pc' = "raised" /\ conversation_ids' = conversation_ids
          ELSE /\ conversation_ids' = r.ids
               /\ pc' = IF NoIds(r.ids) THEN "done" ELSE "ids"
  /\ all_replies' = <<>>
  /\ idx' = 1
  /\ UNCHANGED progVars
  /\ UNCHANGED loopVars
  /\ UNCHANGED <<networkUsed, results, index_dates, out_dict, output, responses, loopLog>>
  /\ raised' = load_conversation_ids(csv).error

\* fetch_conversation_replies is called for the next id, line 83
GrokLoopBegin ==
  /\ prog = "x_download_tweets_grok"
  /\ pc = "ids"
  /\ idx <= Len(conversation_ids)
  /\ \E s \in Scripts : script' = s
  /\ replies' = NewLocal(replies, <<>>)
  /\ next_token' = NewLocal(next_token, NoToken)
  /\ served' = <<>>
  /\ fetches' = 0
  /\ faults' = <<>>
  /\ sleeps' = 0
  /\ status' = "RUNNING"
  /\ lastResp' = "none"
  /\ pc' = "paging"
  /\ UNCHANGED progVars
  /\ UNCHANGED <<total_count, end_time, lastReq>>
  /\ UNCHANGED <<networkUsed, idx, results, conversation_ids, index_dates, out_dict,
                 all_replies, output, responses, loopLog>>
  /\ UNCHANGED raised

\* mutant: the items of a page are put in front of the collected ones
ExtendFront(rs, data) == data \o rs

\* lines 100-101: if response.data: replies.extend(response.data)
Extend(rs, data) == IF data # <<>> THEN rs \o data ELSE rs

\* one request of the Paginator
GrokRequest ==
  /\ networkUsed' = TRUE
  /\ fetches' = fetches + 1

\* one turn of the for loop, lines 85-102: the Paginator fetches the next
\* page; after a page without next_token it stops and replies is returned
GrokPageOk ==
  /\ prog = "x_download_tweets_grok"
  /\ pc = "paging"
  /\ GrokRequest
  /\ LET response == RemotePage(script, next_token)
     IN /\ replies' = Extend(replies, response.data)
        /\ next_token' = response.next_token
        /\ served' = Append(served, response.page)
        /\ lastResp' = "page"
        /\ IF response.next_token = NoToken
             THEN pc' = "ret" /\ status' = "DONE"
             ELSE pc' = "paging" /\ status' = "RUNNING"
  /\ UNCHANGED progVars
  /\ UNCHANGED <<script, total_count, end_time, lastReq, faults, sleeps>>
  /\ UNCHANGED <<idx, results, conversation_ids, index_dates, out_dict, all_replies,
                 output, responses, loopLog>>
  /\ UNCHANGED raised

\* the remote answers 429 and the client (wait_on_rate_limit=True, line
\* 122) waits for the reset and repeats the request itself: the loop
\* does not see it
GrokRateLimitWait ==
  /\ prog = "x_download_tweets_grok"
  /\ pc = "paging"
  /\ Len(faults) < MaxWaits
  /\ GrokRequest
  /\ Fault("RateLimited")
  /\ UNCHANGED progVars
  /\ UNCHANGED <<script, next_token, total_count, replies, end_time, lastReq,
                 served, sleeps, status>>
  /\ UNCHANGED <<pc, idx, results, conversation_ids, index_dates, out_dict,
                 all_replies, output, responses, loopLog>>
  /\ UNCHANGED raised

\* the client raises tweepy.TooManyRequests, lines 103-105 and 108: the
\* cool-down is slept and replies is returned
GrokTooManyRequests ==
  /\ prog = "x_download_tweets_grok"
  /\ pc = "paging"
  /\ GrokRequest
  /\ Fault("RateLimited")
  /\ sleeps' = sleeps + 1
  /\ pc' = "ret"
  /\ status' = "ABORTED"
  /\ UNCHANGED progVars
  /\ UNCHANGED <<script, next_token, total_count, replies, end_time, lastReq, served>>
  /\ UNCHANGED <<idx, results, conversation_ids, index_dates, out_dict, all_replies,
                 output, responses, loopLog>>
  /\ UNCHANGED raised

\* any other exception, lines 106-108: printed, replies is returned
GrokException ==
  /\ prog = "x_download_tweets_grok"
  /\ pc = "paging"
  /\ GrokRequest
  /\ \E kind \in {"RemoteError", "TransportError"} : Fault(kind)
  /\ pc' = "ret"
  /\ status' = "ABORTED"
  /\ UNCHANGED progVars
  /\ UNCHANGED <<script, next_token, total_count, replies, end_time, lastReq,
                 served, sleeps>>
  /\ UNCHANGED <<idx, results, conversation_ids, index_dates, out_dict, all_replies,
                 output, responses, loopLog>>
  /\ UNCHANGED raised

\* main, lines 129-131: all_replies[conv_id] = replies
GrokReturn ==
  /\ prog = "x_download_tweets_grok"
  /\ pc = "ret"
  /\ all_replies' = DictSet(all_replies, conversation_ids[idx], replies)
  /\ idx' = idx + 1
  /\ pc' = "ids"
  /\ loopLog' = Append(loopLog, status)
  /\ ResetLoop
  /\ UNCHANGED progVars
  /\ UNCHANGED <<networkUsed, results, conversation_ids, index_dates, out_dict, output,
                 responses>>
  /\ UNCHANGED raised

\* main, lines 133-145: the JSON file is written
GrokWrite ==
  /\ prog = "x_download_tweets_grok"
  /\ pc = "ids"
  /\ ForExhausted(idx, Len(conversation_ids))
  /\ output' = <<all_replies>>
  /\ pc' = "done"
  /\ UNCHANGED progVars
  /\ UNCHANGED loopVars
  /\ UNCHANGED <<networkUsed, idx, results, conversation_ids, index_dates, out_dict,
                 all_replies, responses, loopLog>>
  /\ UNCHANGED raised

Init ==
  /\ raised = ""
  /\ prog \in Programs
  /\ token \in BOOLEAN
  /\ csvArg \in IF prog = "x_counts_recent" THEN BOOLEAN ELSE {FALSE}
  /\ csv \in IF csvArg THEN CsvFiles
             ELSE IF prog = "x_download_tweets_grok" THEN GrokCsvFiles ELSE {NoCsv}
  /\ pc = IF prog = "x_counts" THEN "call" ELSE "start"
  /\ clock \in {GraceSeconds * TicksPerSecond + f :
                  f \in 0..(IF prog = "x_counts" THEN TicksPerSecond - 1 ELSE 0)}
  /\ networkUsed = FALSE
  /\ idx = 1
  /\ script = <<>>
  /\ next_token = NoToken
  /\ total_count = 0
  /\ replies = <<>>
  /\ end_time = 0
  /\ lastReq = <<>>
  /\ lastResp = "none"
  /\ served = <<>>
  /\ fetches = 0
  /\ faults = <<>>
  /\ sleeps = 0
  /\ status = "IDLE"
  /\ results = <<>>
  /\ conversation_ids = <<>>
  /\ index_dates = <<>>
  /\ out_dict = <<>>
  /\ all_replies = <<>>
  /\ output = <<>>
  /\ responses = <<>>
  /\ loopLog = <<>>

Next ==
  \/ Tick
  \/ CountNoToken
  \/ CountBegin
  \/ CountFetchOk
  \/ CountFetchStatus
  \/ CountFetchTransport
  \/ CountReturn
  \/ RecentExtract
  \/ RecentNoToken
  \/ RecentBegin
  \/ RecentFetchOk
  \/ RecentFetchFail
  \/ RecentBuild
  \/ GrokNoToken
  \/ GrokLoad
  \/ GrokLoopBegin
  \/ GrokPageOk
  \/ GrokRateLimitWait
  \/ GrokTooManyRequests
  \/ GrokException
  \/ GrokReturn
  \/ GrokWrite

Spec == Init /\ [][Next]_vars

(* ------------------------------ properties ----------------------------- *)
InLoopProg == prog \in {"x_counts", "x_download_tweets_grok"}

Terminal == {"DONE", "ABORTED", "RAISED"}

\* the tweets of the pages folded so far in the current loop, in order
FoldedItems == Flatten([k \in 1..Len(served) |-> script[served[k]]])

NumQualifying(items) == Cardinality({i \in 1..Len(items) : items[i] >= MIN_LIKES})

\* the loop's aggregate as it stands
LoopAggregate == IF prog = "x_counts" THEN <<total_count>> ELSE replies

\* the aggregate of a fold over the given pages
AggregateOf(pages) ==
  IF prog = "x_counts" THEN <<NumQualifying(Flatten(pages))>> ELSE Flatten(pages)

\* C1 (as claimed): a loop that has ended and in which the remote answered
\* exactly one fetch with a rate-limit signal returns the aggregate of a
\* run over all its pages without that signal.
C1_RateLimitTransparent ==
  (InLoopProg /\ status \in Terminal /\ faults = <<"RateLimited">>)
    => LoopAggregate = AggregateOf(script)

\* C2 (as claimed): the loop of count_popular_tweets is over only when
\* the last answer was a page without a cursor.
C2_EndsOnlyOnAbsentCursor ==
  (prog = "x_counts" /\ status \in Terminal)
    => (lastResp = "page" /\ next_token = NoToken)

\* C2 (amended): the loop of count_popular_tweets ends DONE exactly when
\* the last answer was a page without a cursor (it also ends, ABORTED, on
\* a status other than 200 and, by an exception, on a transport error);
\* while the answers are pages with a cursor it goes on; a loop that ends
\* DONE over n pages (n = 3 included) has made n folds and n fetches.
C2_DoneIffAbsentCursor ==
  prog = "x_counts" =>
    /\ (status = "DONE") <=> (lastResp = "page" /\ next_token = NoToken)
    /\ (status = "ABORTED") <=> (lastResp \in {"RateLimited", "RemoteError"})
    /\ (status = "RAISED") <=> (lastResp = "TransportError")
    /\ (lastResp = "page" /\ next_token # NoToken) => (status = "RUNNING" /\ pc = "loop")
    /\ status = "DONE" =>
         /\ pc = "ret"
         /\ Len(served) = Len(script)
         /\ fetches = Len(script)
         /\ served = [k \in 1..Len(script) |-> k]

C2_Witness ==
  /\ prog = "x_counts"
  /\ status = "DONE"
  /\ Len(script) = 3
  /\ Len(served) = 3
  /\ fetches = 3

\* C3: total_count is the number of tweets of the folded pages with
\* like_count >= min_likes; a tweet at the threshold counts, one below
\* does not.
C3_CountIsQualifying ==
  (prog = "x_counts" /\ status # "IDLE") => total_count = NumQualifying(FoldedItems)

C3_Witness ==
  /\ prog = "x_counts"
  /\ status = "DONE"
  /\ Len(served) >= 2
  /\ \E i, j \in 1..Len(FoldedItems) :
       FoldedItems[i] = MIN_LIKES /\ FoldedItems[j] = MIN_LIKES - 1
  /\ total_count = 1

\* the non-blank cells, each at its first occurrence only, in input order
RECURSIVE FirstOccurrences(_, _)
FirstOccurrences(cells, before) ==
  IF cells = <<>> THEN <<>>
  ELSE IF Head(cells) = Blank \/ Head(cells) \in before
         THEN FirstOccurrences(Tail(cells), before)
         ELSE <<Head(cells)>> \o FirstOccurrences(Tail(cells), before \cup {Head(cells)})

DedupRan ==
  /\ csv.exists
  /\ csv.hasColumn
  /\ \/ prog = "x_counts_recent" /\ csvArg /\ pc = "done"
     \/ prog = "x_download_tweets_grok" /\ token /\ pc # "start"

\* C4 (as claimed): the Deduplicator returns each non-blank value of the
\* input once, in the order of first occurrence, and no blank.
C4_DedupFirstOccurrences ==
  DedupRan => conversation_ids = FirstOccurrences(csv.cells, {})

\* C5 (as claimed): after a fetch answered with a failure other than a
\* rate limit, the loop has stopped without raising and returns the
\* aggregate of the pages fetched before.
C5_PartialAggregateReturned ==
  (InLoopProg /\ lastResp \in {"RemoteError", "TransportError"})
    => /\ pc = "ret"
       /\ status = "ABORTED"
       /\ LoopAggregate = AggregateOf([k \in 1..Len(served) |-> script[k]])

\* C6: without the credential no network request is issued: a run that
\* needs the network ends in the configuration error at once.
C6_NoNetworkWithoutToken ==
  ~token =>
    /\ ~networkUsed
    /\ (prog = "x_counts_recent" /\ csvArg) \/ pc \in {"start", "call", "raised"}

C6_Witness ==
  /\ ~token
  /\ pc = "raised"
  /\ ~networkUsed
  /\ ~csvArg

LoopsExpected ==
  CASE prog = "x_counts" -> Len(Queries)
    [] prog = "x_counts_recent" -> Len(CANDIDATES)
    [] OTHER -> Len(conversation_ids)

\* C7 (as claimed): a run in which a fetch failed in one loop still runs
\* every loop to its end and materializes the output.
C7_SiblingLoopsSurvive ==
  (pc \in {"done", "raised"} /\ \E i \in 1..Len(loopLog) : loopLog[i] # "DONE")
    => /\ Len(loopLog) = LoopsExpected
       /\ output # <<>>

\* the bucket key of a row, and the count a response holds for a key
KeyOf(row) == row.start[1]

Keys(data) == [i \in 1..Len(data) |-> KeyOf(data[i])]

CountFor(data, key) ==
  LET i == CHOOSE k \in 1..Len(data) : KeyOf(data[k]) = key
  IN data[i].tweet_count

SameKeys == \A c \in 1..Len(responses) : Keys(responses[c]) = Keys(responses[1])

\* C8: when every query returned the same bucket keys in the same order,
\* the table is written with one row per key in the first query's order,
\* one column per label, and in each cell the count that query returned
\* for that bucket.
C8_TableCells ==
  (/\ prog = "x_counts_recent"
   /\ Len(responses) = Len(CANDIDATES)
   /\ SameKeys
   /\ pc # "candidates")
    => /\ pc = "done"
       /\ Len(output) = 1
       /\ output[1].index = Keys(responses[1])
       /\ Len(output[1].columns) = Len(CANDIDATES)
       /\ \A c \in 1..Len(CANDIDATES) :
            /\ output[1].columns[c][1] = CANDIDATES[c]
            /\ Len(output[1].columns[c][2]) = Len(output[1].index)
            /\ \A r \in 1..Len(output[1].index) :
                 output[1].columns[c][2][r] = CountFor(responses[c], output[1].index[r])

C8_Witness ==
  /\ prog = "x_counts_recent"
  /\ pc = "done"
  /\ ~csvArg
  /\ SameKeys
  /\ Len(output[1].index) = 2
  /\ Len(output[1].columns) = 2
  /\ output[1].columns[1][2] = <<0, 1>>
  /\ output[1].columns[2][2] = <<1, 0>>

\* C9: every request of count_popular_tweets carries an end_time at
\* least 20 seconds before the time the request is issued.
C9_EndTimeGrace ==
  (prog = "x_counts" /\ lastReq # <<>>)
    => lastReq[1].at - lastReq[1].end_time >= GraceSeconds * TicksPerSecond

C9_Witness ==
  /\ prog = "x_counts"
  /\ lastReq # <<>>
  /\ lastReq[1].next_token # NoToken
  /\ lastReq[1].at - lastReq[1].end_time > GraceSeconds * TicksPerSecond

\* C10 (as claimed): a rate-limit signal does not end the loop: after it
\* the loop is still running, with the cursor of the throttled request.
C10_RateLimitKeepsLoopRunning ==
  (InLoopProg /\ lastResp = "RateLimited")
    => /\ status = "RUNNING"
       /\ (lastReq # <<>> => lastReq[1].next_token = next_token)

\* the cursor the remote hands out with page i of the pages s
TokenAfter(s, i) == IF i < Len(s) THEN i + 1 ELSE NoToken

\* C11: in a loop of count_popular_tweets the first request carries no
\* cursor and every later request carries the cursor returned with the
\* page fetched just before it in the same loop; after a page without a
\* cursor the loop issues no further request.
C11_CursorDiscipline ==
  prog = "x_counts" =>
    /\ lastReq # <<>> =>
         /\ fetches >= 1
         /\ Len(served) >= fetches - 1
         /\ lastReq[1].next_token =
              IF fetches = 1 THEN NoToken ELSE TokenAfter(script, served[fetches - 1])
    /\ (lastResp = "page" /\ next_token = NoToken) => pc # "loop"
    /\ (pc = "loop" /\ lastReq = <<>>) => next_token = NoToken

C11_Witness ==
  /\ prog = "x_counts"
  /\ idx = 2
  /\ loopLog = <<"ABORTED">>
  /\ fetches = 3
  /\ lastReq # <<>>
  /\ lastReq[1].next_token = 3
  /\ status = "DONE"

\* the set of bucket keys of a response
KeySet(data) == {KeyOf(data[i]) : i \in 1..Len(data)}

\* C12: when a later query of the bucketed count collector returned a set
\* of bucket keys different from the first query's, the run ends in a
\* fault and writes no table; a table that is written holds in every cell
\* a count the query returned for the bucket key of that row.
C12_DifferentKeysFault ==
  (/\ prog = "x_counts_recent"
   /\ ~csvArg
   /\ Len(responses) = Len(CANDIDATES)
   /\ pc # "candidates")
    => /\ (\E c \in 2..Len(responses) : KeySet(responses[c]) # KeySet(responses[1]))
            => (pc = "raised" /\ output = <<>>)
       /\ output # <<>> =>
            \A c \in 1..Len(CANDIDATES) : \A r \in 1..Len(output[1].index) :
              \E k \in 1..Len(responses[c]) :
                /\ KeyOf(responses[c][k]) = output[1].index[r]
                /\ responses[c][k].tweet_count = output[1].columns[c][2][r]

\* the values the loops that returned so far handed to their caller
Returned ==
  IF prog = "x_counts" THEN results
  ELSE IF prog = "x_download_tweets_grok"
         THEN [i \in 1..Len(all_replies) |-> all_replies[i][2]]
         ELSE <<>>

\* C13: the value a pagination loop returns carries its terminal status:
\* a loop that ended DONE and a loop that ended ABORTED never hand
\* identical values to their caller.
C13_ReturnCarriesStatus ==
  \A i, j \in 1..Len(Returned) :
    (loopLog[i] = "DONE" /\ loopLog[j] = "ABORTED") => Returned[i] # Returned[j]

\* a request to the remote API
FetchStep ==
  \/ RecentFetchOk \/ RecentFetchFail
  \/ GrokPageOk \/ GrokRateLimitWait \/ GrokTooManyRequests \/ GrokException

\* C14: the JSON file of x_download_tweets_grok.main and the table of
\* x_counts_recent.main are written only when the loop of every identifier
\* (the fetch of every candidate) has returned, and once the output is
\* written no fetch can be issued.
C14_WriteAfterAllLoops ==
  (/\ prog \in {"x_counts_recent", "x_download_tweets_grok"}
   /\ ~csvArg
   /\ output # <<>>)
    => /\ pc = "done"
       /\ Len(loopLog) = LoopsExpected
       /\ \A i \in 1..Len(loopLog) : loopLog[i] \in {"DONE", "ABORTED"}
       /\ ~ENABLED FetchStep

C14_Witness ==
  /\ prog = "x_download_tweets_grok"
  /\ output # <<>>
  /\ Len(conversation_ids) = 2
  /\ loopLog = <<"ABORTED", "DONE">>
  /\ networkUsed

\* the Deduplicator has been called in this run
DedupCalled ==
  \/ prog = "x_counts_recent" /\ csvArg /\ pc # "start"
  \/ prog = "x_download_tweets_grok" /\ token /\ pc # "start"

\* C15: called on a file that does not exist the Deduplicator raises
\* FileNotFoundError, called on a file without the conversation_id column
\* it raises KeyError, and in both cases the run ends with no network
\* request issued and no output written; a file that has the column raises
\* neither, whatever cells are blank.
C15_InputErrorsAbort ==
  DedupCalled =>
    /\ ~csv.exists =>
         (raised = "FileNotFoundError" /\ pc = "raised" /\ ~networkUsed /\ output = <<>>)
    /\ (csv.exists /\ ~csv.hasColumn) =>
         (raised = "KeyError" /\ pc = "raised" /\ ~networkUsed /\ output = <<>>)
    /\ (csv.exists /\ csv.hasColumn) => raised \notin {"FileNotFoundError", "KeyError"}

C15_Witness ==
  /\ prog = "x_download_tweets_grok"
  /\ csv.exists
  /\ ~csv.hasColumn
  /\ raised = "KeyError"
  /\ pc = "raised"

\* C16: in every loop of fetch_conversation_replies the collected
\* sequence is the concatenation of the items of the pages fetched so far,
\* in fetch order and each page in the order the API returned it; nothing
\* is filtered, reordered or dropped as a repetition, and this is the
\* sequence the loop returns.
C16_RepliesAreConcatenation ==
  (prog = "x_download_tweets_grok" /\ pc \in {"paging", "ret"})
    => replies = FoldedItems

C16_Witness ==
  /\ prog = "x_download_tweets_grok"
  /\ pc = "ret"
  /\ status = "DONE"
  /\ served = <<1, 2, 3>>
  /\ script = <<<<MIN_LIKES>>, <<>>, <<MIN_LIKES>>>>
  /\ replies = <<MIN_LIKES, MIN_LIKES>>

\* C17: the aggregate of a loop of count_popular_tweets or
\* fetch_conversation_replies is the fold of the pages served to that loop
\* alone, and its first request carries no cursor, whatever count, items,
\* cursor and status the loops before it in the run ended with.
C17_LoopOwnsItsState ==
  (InLoopProg /\ status \in {"RUNNING", "DONE", "ABORTED"})
    => /\ LoopAggregate = AggregateOf([k \in 1..Len(served) |-> script[served[k]]])
       /\ served = <<>> => next_token = NoToken

C17_Witness ==
  /\ prog = "x_counts"
  /\ idx = 2
  /\ loopLog = <<"ABORTED">>
  /\ results = <<1>>
  /\ pc = "ret"
  /\ status = "DONE"
  /\ Len(script) = 1
  /\ served = <<1>>
  /\ total_count = 0

\* C18: in x_download_tweets_grok.main the mapping holds, after each loop
\* has returned, one entry per identifier handled so far, in the order of
\* the deduplicated list, the entry of the last one holding what its loop
\* returned; the mapping written has exactly the identifiers of the list,
\* those whose loop stopped early included.
C18_OneEntryPerId ==
  (prog = "x_download_tweets_grok" /\ pc \in {"ids", "paging", "ret", "done"}
     /\ conversation_ids # <<>>)
    => /\ Len(all_replies) = Len(loopLog)
       /\ Len(all_replies) <= Len(conversation_ids)
       /\ \A i \in 1..Len(all_replies) : all_replies[i][1] = conversation_ids[i]
       /\ (pc = "ids" /\ idx > 1) =>
            (Len(all_replies) = idx - 1 /\ all_replies[idx - 1][2] = replies)
       /\ output # <<>> =>
            (output[1] = all_replies /\ Len(all_replies) = Len(conversation_ids))

C18_Witness ==
  /\ prog = "x_download_tweets_grok"
  /\ pc = "done"
  /\ Len(conversation_ids) = 2
  /\ loopLog = <<"ABORTED", "DONE">>
  /\ Len(output) = 1
  /\ Len(output[1]) = 2
  /\ output[1][1][2] = <<>>
  /\ output[1][2][2] # <<>>

\* C19: when the file has the conversation_id column and the deduplicated
\* list is empty, x_download_tweets_grok.main returns right after loading:
\* no loop is started, no network request is issued, nothing is written
\* and no exception is raised.
C19_EmptyListStops ==
  (/\ prog = "x_download_tweets_grok"
   /\ token
   /\ csv.exists
   /\ csv.hasColumn
   /\ load_conversation_ids(csv).ids = <<>>
   /\ pc # "start")
    => /\ pc = "done"
       /\ conversation_ids = <<>>
       /\ ~networkUsed
       /\ loopLog = <<>>
       /\ output = <<>>
       /\ raised = ""

C19_Witness ==
  /\ prog = "x_download_tweets_grok"
  /\ csv.exists
  /\ csv.hasColumn
  /\ csv.cells = <<Blank>>
  /\ pc = "done"
  /\ output = <<>>

====
